---- MODULE Spec2Model ----
(***************************************************************************)
(* SmartControl CLI (zTC1 smart plug controller).                          *)
(*                                                                         *)
(* One run of the program: main() dispatches to one operation, which       *)
(* talks to the device over UDP broadcast and/or an MQTT broker.  The      *)
(* model has one program counter per goroutine (main, the broadcast        *)
(* goroutine, the UDP listener and its reader goroutine, the MQTT          *)
(* subscriber and the MQTT client's message handler), the sockets and      *)
(* broker connections they open, the unbuffered channels between them      *)
(* (a send and its receive are one rendezvous step), and the environment:  *)
(* the network, the broker, the devices and the clock.                     *)
(***************************************************************************)
EXTENDS Integers, Sequences, FiniteSets, TLC

(***************************************************************************)
(* Bounds of the model.                                                    *)
(***************************************************************************)
MaxTime == 32      \* seconds of wall-clock time explored
MaxDgrams == 3     \* datagrams the devices send to the receive port
MaxMsgs == 3       \* messages the broker delivers to the subscription
MaxQuiet == 62     \* seconds explored of a Discover run that no device answers

(***************************************************************************)
(* Program constants.                                                      *)
(***************************************************************************)
RemoteReceivePort == 10181
RemoteSendPort == 10182
interval == 1          \* progress tick, seconds
DiscoverTimeout == 30  \* time.After(30 * time.Second)
SettleDelay == 2       \* time.Sleep(2 * time.Second)
UpgradePoll == 3       \* time.Sleep(3 * time.Second)
MinPlug == 0
MaxPlug == 5
ClientID == "SmartControl-CLI"

(***************************************************************************)
(* Command-line inputs.                                                    *)
(***************************************************************************)
Commands == {"discover", "adopt", "activate", "monitor", "switch", "upgrade"}
MonitorTypes == {"power", "state", "other"}
Macs == {"11111111e10d", "22222222e10d"}
PlugArgs == (MinPlug - 1) .. (MaxPlug + 1)
uri == "10.0.0.124"
port == "1883"
username == "admin"
password == "admin"
lock == "1234567890abcdef"
ota == "http://192.168.43.119/TC1.ota.bin"

(***************************************************************************)
(* Outgoing envelopes: map[string]interface{} values and json.Marshal.     *)
(* A value is tagged with its Go type; Marshal writes an object's keys in  *)
(* sorted order, a string in quotes and an int in decimal.                 *)
(***************************************************************************)
JStr(s) == [t |-> "string", v |-> s]
JNum(n) == [t |-> "int", v |-> n]
JObj(m) == [t |-> "map", v |-> m]

Itoa(i) == IF i < 0 THEN "-" \o ToString(0 - i) ELSE ToString(i)

PlugKey(i) == "plug_" \o Itoa(i)

\* every key the program writes, in the byte order json.Marshal sorts them
SortedKeys ==
  <<"lock", "mac", "mqtt_password", "mqtt_port", "mqtt_uri", "mqtt_user",
    "on", "ota", "plug_-1", "plug_0", "plug_1", "plug_2", "plug_3", "plug_4",
    "plug_5", "plug_6", "setting">>

RECURSIVE Join(_)
Join(parts) ==
  IF parts = <<>> THEN ""
  ELSE IF Len(parts) = 1 THEN parts[1]
  ELSE parts[1] \o "," \o Join(Tail(parts))

RECURSIVE Marshal(_)
RECURSIVE Members(_, _)
Members(m, i) ==
  IF i > Len(SortedKeys) THEN <<>>
  ELSE IF SortedKeys[i] \in DOMAIN m
       THEN <<"\"" \o SortedKeys[i] \o "\":" \o Marshal(m[SortedKeys[i]])>>
              \o Members(m, i + 1)
       ELSE Members(m, i + 1)

Marshal(j) ==
  CASE j.t = "string" -> "\"" \o j.v \o "\""
    [] j.t = "int" -> ToString(j.v)
    [] j.t = "map" -> "{" \o Join(Members(j.v, 1)) \o "}"

AdoptPayload(m) ==
  JObj([mac |-> JStr(m),
        setting |-> JObj([mqtt_uri |-> JStr(uri),
                          mqtt_port |-> JStr(port),
                          mqtt_user |-> JStr(username),
                          mqtt_password |-> JStr(password)])])

ActivatePayload(m, code) == JObj([mac |-> JStr(m), lock |-> JStr(code)])

\* mutation of OnFlag: the flag is inverted
OnFlag_Inverted(b) == IF b THEN 0 ELSE 1

OnFlag(b) == IF b THEN 1 ELSE 0

SwitchPayload(m, i, b) ==
  JObj(("mac" :> JStr(m)) @@ (PlugKey(i) :> JObj([on |-> JNum(OnFlag(b))])))

\* mutation of UpgradePayload: the envelope has no mac
UpgradePayload_NoMac(m, otaURI) ==
  JObj([setting |-> JObj([ota |-> JStr(otaURI)])])

UpgradePayload(m, otaURI) ==
  JObj([mac |-> JStr(m), setting |-> JObj([ota |-> JStr(otaURI)])])

DiscoverRequest == "{\"cmd\": \"device report\"}"

SetTopic(m) == "device/ztc1/" \o m \o "/set"
SensorTopic(m) == "device/ztc1/" \o m \o "/sensor"
StateTopic(m) == "device/ztc1/" \o m \o "/state"

(***************************************************************************)
(* Incoming payloads.  A payload is what json.Unmarshal makes of its       *)
(* bytes: a JSON object with its fields, a JSON value that is not an       *)
(* object, or text that is not JSON at all.                                *)
(***************************************************************************)
Nil == "<nil>"

Object(fields) == [json |-> "object", fields |-> fields]
NotObject == [json |-> "scalar", fields |-> <<>>]
Garbage == [json |-> "invalid", fields |-> <<>>]
NoPayload == [json |-> "none", fields |-> <<>>]

ReplyA ==
  Object([name |-> "zTC1_e10d", mac |-> "11111111e10d", type_name |-> "zTC1",
          ip |-> "10.0.0.123"])
ReplyB ==
  Object([name |-> "zTC1_f20e", mac |-> "22222222e10d", type_name |-> "zTC1",
          ip |-> "10.0.0.125"])
Progress(p) == Object([ota_progress |-> p])

\* datagrams that may arrive on the receive port during an operation
Datagrams(cmd) ==
  IF cmd = "upgrade"
  THEN {Progress(10), Progress(55), Progress(100), Garbage}
  ELSE {ReplyA, ReplyB, Garbage, NotObject}

StateObject(ons) ==
  Object([k \in {PlugKey(i) : i \in DOMAIN ons} |->
            [on |-> ons[CHOOSE i \in DOMAIN ons : PlugKey(i) = k]]])

AllPlugs == MinPlug .. MaxPlug
StateAllOn == StateObject([i \in AllPlugs |-> 1])
StateMixed == StateObject([i \in AllPlugs |-> i % 3])
StateShort == StateObject([i \in MinPlug .. (MaxPlug - 1) |-> 1])

Power(w, t) == Object([power |-> w, total_time |-> t])
PowerNoTime == Object([power |-> "7"])

\* messages the broker may deliver on the subscribed topic
Messages(mt) ==
  IF mt = "power"
  THEN {Power("5", 42), Power("10", 47), PowerNoTime, Garbage}
  ELSE {StateAllOn, StateMixed, StateShort, Garbage}

NilIface == [json |-> "nil", fields |-> <<>>]

\* json.Unmarshal(message, &f): f stays nil when the text is not JSON
Unmarshal(b) ==
  IF b.json = "invalid" THEN [err |-> "err", f |-> NilIface]
  ELSE [err |-> "nil", f |-> b]

\* f.(map[string]interface{}) succeeds
IsMap(f) == f.json = "object"

\* r[k] of a Go map: nil when the key is absent
Field(rr, k) == IF k \in DOMAIN rr THEN rr[k] ELSE Nil

(***************************************************************************)
(* State.                                                                  *)
(***************************************************************************)
VARIABLES
  cmd, monitorType, mac, plug, on,         \* os.Args as parsed by main
  pc, crashed, opErr,                      \* main goroutine, panic, returned error
  topic, msg, resp, r, dsCalls,            \* locals of the running operation
  now, tickReady, afterAt, wakeAt, held,   \* clock, tick channel, timers
  dots, timeouts, reports,                 \* what the program printed
  pubClient, pubErr, pubOutcome, mqttSent, \* publish and its MQTT client
  clientIds,                               \* client ids presented to the broker
  bcPc, bcBy, bcMsg, bcSock, bcErr, udpSent, bcCalls,  \* broadcast, its socket
  rcvPc, rcvBy, lsnSock, sockQ, dgrams, delivered,  \* receive, socket, queue
  rdPc, data, raced, closedReads,          \* reader goroutine and its buffer
  subPc, subTopic, subClient, subscribed, mqttQ, msgs, hMsg,  \* subscribe, handler
  mqttDelivered                            \* messages handed to the client

argsV == <<cmd, monitorType, mac, plug, on>>
locV == <<topic, msg, resp, r, dsCalls>>
timeV == <<now, tickReady, afterAt, wakeAt, held>>
outV == <<dots, timeouts, reports>>
pubV == <<pubClient, pubErr, pubOutcome, mqttSent, clientIds>>
bcV == <<bcPc, bcBy, bcMsg, bcSock, bcErr, udpSent, bcCalls>>
rcvV == <<rcvPc, rcvBy, lsnSock, sockQ, dgrams, delivered>>
rdV == <<rdPc, data, raced, closedReads>>
subV == <<subPc, subTopic, subClient, subscribed, mqttQ, msgs, hMsg,
          mqttDelivered>>

vars ==
  <<argsV, pc, crashed, opErr, locV, timeV, outV, pubV, bcV, rcvV, rdV, subV>>

Init ==
  /\ cmd = "" /\ monitorType = "state" /\ mac = "" /\ plug = 0 /\ on = FALSE
  /\ pc = "main" /\ crashed = FALSE /\ opErr = "unset"
  /\ topic = "" /\ msg = "" /\ resp = NoPayload /\ r = <<>> /\ dsCalls = 0
  /\ now = 0 /\ tickReady = FALSE /\ afterAt = 0 /\ wakeAt = 0 /\ held = FALSE
  /\ dots = 0 /\ timeouts = 0 /\ reports = <<>>
  /\ pubClient = "none" /\ pubErr = "unset" /\ pubOutcome = "none"
  /\ mqttSent = <<>> /\ clientIds = <<>>
  /\ bcPc = "idle" /\ bcBy = "none" /\ bcMsg = "" /\ bcSock = "none"
  /\ bcErr = "unset" /\ udpSent = <<>> /\ bcCalls = 0
  /\ rcvPc = "idle" /\ rcvBy = "none" /\ lsnSock = "none" /\ sockQ = <<>>
  /\ dgrams = 0 /\ delivered = <<>>
  /\ rdPc = "idle" /\ data = NoPayload /\ raced = FALSE /\ closedReads = 0
  /\ subPc = "idle" /\ subTopic = "" /\ subClient = "none" /\ subscribed = FALSE
  /\ mqttQ = <<>> /\ msgs = 0 /\ hMsg = NoPayload /\ mqttDelivered = <<>>

\* the process is alive: main has not returned or exited and nothing panicked
Running == pc \notin {"main", "done", "exit"} /\ ~crashed

(***************************************************************************)
(* main: parse the command line and dispatch.                              *)
(***************************************************************************)
\* mutation of Entry: the upper limit of the plug check is off by one
Entry_OffByOne(c, mt, p) ==
  CASE c = "discover" -> "Discover"
    [] c = "adopt" -> "AdoptDevice"
    [] c = "activate" -> "ActivateDevice"
    [] c = "monitor" ->
         (IF mt = "power" THEN "DevicePower"
          ELSE IF mt = "state" THEN "DeviceState" ELSE "exit")
    [] c = "switch" ->
         (IF p < MinPlug \/ p > MaxPlug + 1 THEN "exit" ELSE "SwitchPlug")
    [] c = "upgrade" -> "UpgradeDevice"

\* the function main calls for the command line, or "exit" for os.Exit(-1)
Entry(c, mt, p) ==
  CASE c = "discover" -> "Discover"
    [] c = "adopt" -> "AdoptDevice"
    [] c = "activate" -> "ActivateDevice"
    [] c = "monitor" ->
         (IF mt = "power" THEN "DevicePower"
          ELSE IF mt = "state" THEN "DeviceState" ELSE "exit")
    [] c = "switch" -> (IF p < MinPlug \/ p > MaxPlug THEN "exit" ELSE "SwitchPlug")
    [] c = "upgrade" -> "UpgradeDevice"

main ==
  /\ pc = "main"
  /\ \E c \in Commands :
       \E mt \in (IF c = "monitor" THEN MonitorTypes ELSE {"state"}) :
         \E m \in (IF c = "discover" THEN {""} ELSE Macs) :
           \E p \in (IF c = "switch" THEN PlugArgs ELSE {0}) :
             \E b \in (IF c = "switch" THEN BOOLEAN ELSE {FALSE}) :
               /\ cmd' = c /\ monitorType' = mt /\ mac' = m
               /\ plug' = p /\ on' = b
               /\ pc' = Entry(c, mt, p)
  /\ UNCHANGED <<crashed, opErr, locV, timeV, outV, pubV, bcV, rcvV, rdV, subV>>

(***************************************************************************)
(* broadcast(message): run by a goroutine (Discover) or by main.           *)
(***************************************************************************)
\* where main continues once the broadcast it called has returned
AfterBroadcast ==
  CASE pc = "AdoptDevice_broadcast" -> "AdoptDevice_return"
    [] pc = "ActivateDevice_broadcast" -> "ActivateDevice_return"
    [] pc = "SwitchPlug_broadcast" -> "SwitchPlug_return"
    [] OTHER -> pc

\* net.ListenUDP on an ephemeral port
broadcast_Listen ==
  /\ Running /\ bcPc = "listen"
  /\ \E ok \in BOOLEAN :
       IF ok
       THEN /\ bcSock' = "open" /\ bcPc' = "write"
            /\ UNCHANGED <<bcErr, pc>>
       ELSE /\ bcErr' = "err" /\ bcPc' = "done"
            /\ pc' = (IF bcBy = "main" THEN AfterBroadcast ELSE pc)
            /\ UNCHANGED bcSock
  /\ UNCHANGED <<argsV, crashed, opErr, locV, timeV, outV, pubV, bcBy, bcMsg,
                 udpSent, bcCalls, rcvV, rdV, subV>>

\* conn.WriteToUDP(message, broadcast address) and return; conn is not closed
broadcast_Write ==
  /\ Running /\ bcPc = "write"
  /\ \E ok \in BOOLEAN :
       /\ bcErr' = (IF ok THEN "nil" ELSE "err")
       /\ udpSent' = (IF ok THEN Append(udpSent, bcMsg) ELSE udpSent)
  /\ bcPc' = "done"
  /\ pc' = (IF bcBy = "main" THEN AfterBroadcast ELSE pc)
  /\ UNCHANGED <<argsV, crashed, opErr, locV, timeV, outV, pubV, bcBy, bcMsg,
                 bcSock, bcCalls, rcvV, rdV, subV>>

(***************************************************************************)
(* newMQTTClient(uri, port, username, password): the client id its options *)
(* carry, which Connect presents to the broker.                            *)
(***************************************************************************)
newMQTTClient == ClientID

(***************************************************************************)
(* publish(topic, message, ...): run by main.                              *)
(***************************************************************************)
AfterPublish ==
  CASE pc = "ActivateDevice_publish" -> "ActivateDevice_published"
    [] pc = "SwitchPlug_publish" -> "SwitchPlug_published"
    [] pc = "UpgradeDevice_publish" -> "UpgradeDevice_published"

PublishPcs == {"ActivateDevice_publish", "SwitchPlug_publish", "UpgradeDevice_publish"}

\* newMQTTClient; defer Disconnect; Connect.  A failed connect returns its error.
publish_Connect ==
  /\ pc \in PublishPcs /\ ~crashed /\ pubClient = "none"
  /\ clientIds' = Append(clientIds, newMQTTClient)
  /\ \E ok \in BOOLEAN :
       IF ok
       THEN /\ pubClient' = "connected"
            /\ UNCHANGED <<pc, pubErr, pubOutcome>>
       ELSE /\ pubClient' = "disconnected"
            /\ pubErr' = "err" /\ pubOutcome' = "connectFailed"
            /\ pc' = AfterPublish
  /\ UNCHANGED <<argsV, crashed, opErr, locV, timeV, outV, mqttSent, bcV, rcvV,
                 rdV, subV>>

\* mutation of publish_Publish: publish returns without the deferred Disconnect
publish_Publish_NoDisconnect ==
  /\ pc \in PublishPcs /\ ~crashed /\ pubClient = "connected"
  /\ \E ok \in BOOLEAN :
       /\ mqttSent' = (IF ok THEN Append(mqttSent, [topic |-> topic, payload |-> msg])
                       ELSE mqttSent)
       /\ pubOutcome' = (IF ok THEN "published" ELSE "publishFailed")
  /\ pubErr' = "nil"
  /\ pc' = AfterPublish
  /\ UNCHANGED <<argsV, crashed, opErr, locV, timeV, outV, pubClient, clientIds,
                 bcV, rcvV, rdV, subV>>

\* client.Publish at QoS 0, t.Wait(), return nil; the token's error is not read;
\* the deferred client.Disconnect(250) runs as publish returns
publish_Publish ==
  /\ pc \in PublishPcs /\ ~crashed /\ pubClient = "connected"
  /\ \E ok \in BOOLEAN :
       /\ mqttSent' = (IF ok THEN Append(mqttSent, [topic |-> topic, payload |-> msg])
                       ELSE mqttSent)
       /\ pubOutcome' = (IF ok THEN "published" ELSE "publishFailed")
  /\ pubErr' = "nil"
  /\ pubClient' = "disconnected"
  /\ pc' = AfterPublish
  /\ UNCHANGED <<argsV, crashed, opErr, locV, timeV, outV, clientIds, bcV, rcvV,
                 rdV, subV>>

(***************************************************************************)
(* AdoptDevice.                                                            *)
(***************************************************************************)
\* mutation of AdoptDevice: it also listens for an acknowledgment
AdoptDevice_Listens ==
  /\ pc = "AdoptDevice"
  /\ msg' = Marshal(AdoptPayload(mac))
  /\ bcPc' = "listen" /\ bcBy' = "main" /\ bcMsg' = msg'
  /\ bcCalls' = bcCalls + 1
  /\ rcvPc' = "listen" /\ rcvBy' = "go"
  /\ pc' = "AdoptDevice_broadcast"
  /\ UNCHANGED <<argsV, crashed, opErr, topic, resp, r, dsCalls, timeV, outV,
                 pubV, bcSock, bcErr, udpSent, lsnSock, sockQ, dgrams, delivered,
                 rdV, subV>>

\* json.Marshal(payload); broadcast(msg)
AdoptDevice ==
  /\ pc = "AdoptDevice"
  /\ msg' = Marshal(AdoptPayload(mac))
  /\ bcPc' = "listen" /\ bcBy' = "main" /\ bcMsg' = msg'
  /\ bcCalls' = bcCalls + 1
  /\ pc' = "AdoptDevice_broadcast"
  /\ UNCHANGED <<argsV, crashed, opErr, topic, resp, r, dsCalls, timeV, outV,
                 pubV, bcSock, bcErr, udpSent, rcvV, rdV, subV>>

\* the result of broadcast is dropped; return nil
AdoptDevice_return ==
  /\ pc = "AdoptDevice_return"
  /\ opErr' = "nil"
  /\ pc' = "done"
  /\ UNCHANGED <<argsV, crashed, locV, timeV, outV, pubV, bcV, rcvV, rdV, subV>>

(***************************************************************************)
(* ActivateDevice.                                                         *)
(***************************************************************************)
ActivateDevice ==
  /\ pc = "ActivateDevice"
  /\ msg' = Marshal(ActivatePayload(mac, lock))
  /\ topic' = SetTopic(mac)
  /\ pc' = "ActivateDevice_publish"
  /\ UNCHANGED <<argsV, crashed, opErr, resp, r, dsCalls, timeV, outV, pubV,
                 bcV, rcvV, rdV, subV>>

\* mutation of ActivateDevice_published: the broadcast does not depend on err
ActivateDevice_published_Both ==
  /\ pc = "ActivateDevice_published"
  /\ bcPc' = "listen" /\ bcBy' = "main" /\ bcMsg' = msg
  /\ bcCalls' = bcCalls + 1
  /\ pc' = "ActivateDevice_broadcast"
  /\ UNCHANGED <<argsV, crashed, opErr, locV, timeV, outV, pubV, bcSock, bcErr,
                 udpSent, rcvV, rdV, subV>>

\* err != nil: fall back to broadcast(msg); otherwise return nil
ActivateDevice_published ==
  /\ pc = "ActivateDevice_published"
  /\ IF pubErr = "err"
     THEN /\ bcPc' = "listen" /\ bcBy' = "main" /\ bcMsg' = msg
          /\ bcCalls' = bcCalls + 1
          /\ pc' = "ActivateDevice_broadcast"
          /\ UNCHANGED opErr
     ELSE /\ opErr' = "nil" /\ pc' = "done"
          /\ UNCHANGED <<bcPc, bcBy, bcMsg, bcCalls>>
  /\ UNCHANGED <<argsV, crashed, locV, timeV, outV, pubV, bcSock, bcErr,
                 udpSent, rcvV, rdV, subV>>

\* err = broadcast(msg); return err
ActivateDevice_return ==
  /\ pc = "ActivateDevice_return"
  /\ opErr' = bcErr
  /\ pc' = "done"
  /\ UNCHANGED <<argsV, crashed, locV, timeV, outV, pubV, bcV, rcvV, rdV, subV>>

(***************************************************************************)
(* receive(recvCh, stopCh): run by a goroutine (Discover) or by main       *)
(* (UpgradeDevice), and the reader goroutine it starts.                    *)
(***************************************************************************)
\* mutation of receive_Listen: the listener returns once the reader runs
receive_Listen_NoWait ==
  /\ Running /\ rcvPc = "listen"
  /\ \E ok \in BOOLEAN :
       IF ok
       THEN /\ lsnSock' = "open" /\ rcvPc' = "done" /\ rdPc' = "read"
            /\ pc' = (IF rcvBy = "main" THEN "UpgradeDevice_select" ELSE pc)
       ELSE /\ rcvPc' = "done"
            /\ pc' = (IF rcvBy = "main" THEN "UpgradeDevice_select" ELSE pc)
            /\ UNCHANGED <<lsnSock, rdPc>>
  /\ UNCHANGED <<argsV, crashed, opErr, locV, timeV, outV, pubV, bcV, rcvBy,
                 sockQ, dgrams, delivered, data, raced, closedReads, subV>>

\* net.ListenUDP on the receive port; on success start the reader and wait
\* on stopCh, on failure print and return
receive_Listen ==
  /\ Running /\ rcvPc = "listen"
  /\ \E ok \in BOOLEAN :
       IF ok
       THEN /\ lsnSock' = "open" /\ rcvPc' = "wait" /\ rdPc' = "read"
            /\ UNCHANGED pc
       ELSE /\ rcvPc' = "done"
            /\ pc' = (IF rcvBy = "main" THEN "UpgradeDevice_select" ELSE pc)
            /\ UNCHANGED <<lsnSock, rdPc>>
  /\ UNCHANGED <<argsV, crashed, opErr, locV, timeV, outV, pubV, bcV, rcvBy,
                 sockQ, dgrams, delivered, data, raced, closedReads, subV>>

\* after <-stopCh: socket.Close() and return
receive_Close ==
  /\ Running /\ rcvPc = "close"
  /\ lsnSock' = "closed" /\ sockQ' = <<>>
  /\ rcvPc' = "done"
  /\ pc' = (IF rcvBy = "main" THEN "UpgradeDevice_select" ELSE pc)
  /\ UNCHANGED <<argsV, crashed, opErr, locV, timeV, outV, pubV, bcV, rcvBy,
                 dgrams, delivered, rdV, subV>>

\* a handler holds the slice it was sent and has not yet parsed it
HoldsSlice == pc \in {"Discover_process", "UpgradeDevice_process"}

\* socket.ReadFromUDP(data) in the reader's loop: a datagram is copied into
\* the one buffer every slice sent on recvCh points into; on a closed socket
\* the read fails, the error is printed and the loop continues
reader_Read ==
  /\ Running /\ rdPc = "read"
  /\ IF lsnSock = "closed"
     THEN /\ closedReads = 0
          /\ closedReads' = 1
          /\ UNCHANGED <<sockQ, data, raced, rdPc>>
     ELSE /\ sockQ # <<>>
          /\ data' = Head(sockQ) /\ sockQ' = Tail(sockQ)
          /\ raced' = (raced \/ HoldsSlice)
          /\ rdPc' = "send"
          /\ UNCHANGED closedReads
  /\ UNCHANGED <<argsV, pc, crashed, opErr, locV, timeV, outV, pubV, bcV,
                 rcvPc, rcvBy, lsnSock, dgrams, delivered, subV>>

(***************************************************************************)
(* subscribe(topic, ..., recvCh, stopCh): run by a goroutine, and the      *)
(* message handler the MQTT client calls for each message.                 *)
(***************************************************************************)
\* newMQTTClient; defer Disconnect; Connect.  A failed connect is printed.
subscribe_Connect ==
  /\ Running /\ subPc = "connect"
  /\ clientIds' = Append(clientIds, newMQTTClient)
  /\ \E ok \in BOOLEAN :
       IF ok
       THEN subClient' = "connected" /\ subPc' = "subscribe"
       ELSE subClient' = "new" /\ subPc' = "disconnect"
  /\ UNCHANGED <<argsV, pc, crashed, opErr, locV, timeV, outV, pubClient, pubErr,
                 pubOutcome, mqttSent, bcV, rcvV, rdV, subTopic, subscribed, mqttQ,
                 msgs, hMsg, mqttDelivered>>

\* client.Subscribe(topic, 1, handler); then <-stopCh.  A failure is printed.
subscribe_Subscribe ==
  /\ Running /\ subPc = "subscribe"
  /\ \E ok \in BOOLEAN :
       IF ok
       THEN subscribed' = TRUE /\ subPc' = "wait"
       ELSE subscribed' = FALSE /\ subPc' = "disconnect"
  /\ UNCHANGED <<argsV, pc, crashed, opErr, locV, timeV, outV, pubV, bcV, rcvV,
                 rdV, subTopic, subClient, mqttQ, msgs, hMsg, mqttDelivered>>

\* the deferred client.Disconnect(250) as subscribe returns
subscribe_Disconnect ==
  /\ Running /\ subPc = "disconnect"
  /\ subClient' = "disconnected" /\ subscribed' = FALSE
  /\ subPc' = "done"
  /\ UNCHANGED <<argsV, pc, crashed, opErr, locV, timeV, outV, pubV, bcV, rcvV,
                 rdV, subTopic, mqttQ, msgs, hMsg, mqttDelivered>>

\* the client calls handler(client, msg) for the next message, in order; the
\* handler blocks in recvCh <- msg.Payload() until main receives
handler ==
  /\ Running /\ subClient = "connected" /\ subscribed
  /\ hMsg = NoPayload /\ mqttQ # <<>>
  /\ hMsg' = Head(mqttQ) /\ mqttQ' = Tail(mqttQ)
  /\ UNCHANGED <<argsV, pc, crashed, opErr, locV, timeV, outV, pubV, bcV, rcvV,
                 rdV, subPc, subTopic, subClient, subscribed, msgs, mqttDelivered>>

(***************************************************************************)
(* process(message, proc): json.Unmarshal, then f.(map[string]interface{}) *)
(* without a check, which panics when f is not a JSON object.              *)
(***************************************************************************)
ProcOf ==
  CASE pc = "Discover_process" -> "Discover_proc"
    [] pc = "DevicePower_process" -> "DevicePower_proc"
    [] pc = "DeviceState_process" -> "DeviceState_proc"
    [] pc = "UpgradeDevice_process" -> "UpgradeDevice_proc"

\* two datagrams with the same fields: taken to have the same length
SameShape(a, b) ==
  a.json = "object" /\ b.json = "object" /\ DOMAIN a.fields = DOMAIN b.fields

\* the texts a reader can see while b is being copied over a of the same
\* shape: each field is still a's or already b's
Mixes(a, b) ==
  {Object([k \in DOMAIN a.fields |-> IF k \in S THEN b.fields[k] ELSE a.fields[k]]) :
     S \in SUBSET (DOMAIN a.fields)}

\* what the bytes of the slice read as.  The slice points into the reader's
\* one buffer: when the reader has copied another datagram into it meanwhile
\* (unsynchronised), the slice may still read as the old datagram, as the new
\* one or as a mix of both, and as broken JSON when the lengths differ.
Observed ==
  IF ~raced \/ data = resp THEN {resp}
  ELSE IF SameShape(resp, data) THEN Mixes(resp, data)
  ELSE {resp, Garbage}

process ==
  /\ pc \in {"Discover_process", "DevicePower_process", "DeviceState_process",
             "UpgradeDevice_process"}
  /\ ~crashed
  /\ \E b \in Observed :
       IF IsMap(Unmarshal(b).f)
       THEN /\ r' = Unmarshal(b).f.fields /\ pc' = ProcOf
            /\ UNCHANGED crashed
       ELSE /\ crashed' = TRUE
            /\ UNCHANGED <<r, pc>>
  /\ raced' = FALSE
  /\ UNCHANGED <<argsV, opErr, topic, msg, resp, dsCalls, timeV, outV, pubV,
                 bcV, rcvV, rdPc, data, closedReads, subV>>

(***************************************************************************)
(* Discover.                                                               *)
(***************************************************************************)
\* go broadcast(request); tick := time.Tick(interval); go receive(...);
\* enter the select, which starts a fresh 30 s timer
Discover ==
  /\ pc = "Discover"
  /\ bcPc' = "listen" /\ bcBy' = "go" /\ bcMsg' = DiscoverRequest
  /\ bcCalls' = bcCalls + 1
  /\ rcvPc' = "listen" /\ rcvBy' = "go"
  /\ tickReady' = FALSE /\ afterAt' = now + DiscoverTimeout
  /\ pc' = "Discover_select"
  /\ UNCHANGED <<argsV, crashed, opErr, locV, now, wakeAt, held, outV, pubV, bcSock,
                 bcErr, udpSent, lsnSock, sockQ, dgrams, delivered, rdV, subV>>

\* case <-tick: print a dot and select again, with a new timer
Discover_tick ==
  /\ pc = "Discover_select" /\ ~crashed
  /\ tickReady
  /\ tickReady' = FALSE
  /\ dots' = dots + 1
  /\ afterAt' = now + DiscoverTimeout
  /\ UNCHANGED <<argsV, pc, crashed, opErr, locV, now, wakeAt, held, timeouts,
                 reports, pubV, bcV, rcvV, rdV, subV>>

\* case resp := <-recvCh: the reader's send completes
Discover_recv ==
  /\ pc = "Discover_select" /\ ~crashed
  /\ rdPc = "send"
  /\ resp' = data /\ rdPc' = "read"
  /\ pc' = "Discover_process"
  /\ UNCHANGED <<argsV, crashed, opErr, topic, msg, r, dsCalls, timeV, outV,
                 pubV, bcV, rcvV, data, raced, closedReads, subV>>

\* case <-time.After(30 s): print the timeout message and select again
Discover_timeout ==
  /\ pc = "Discover_select" /\ ~crashed
  /\ now >= afterAt
  /\ timeouts' = timeouts + 1
  /\ afterAt' = now + DiscoverTimeout
  /\ UNCHANGED <<argsV, pc, crashed, opErr, locV, now, tickReady, wakeAt, held, dots,
                 reports, pubV, bcV, rcvV, rdV, subV>>

\* proc: stopCh <- signal, received by the listener waiting on stopCh
Discover_proc ==
  /\ pc = "Discover_proc" /\ ~crashed
  /\ rcvPc = "wait"
  /\ rcvPc' = "close"
  /\ pc' = "Discover_print"
  /\ UNCHANGED <<argsV, crashed, opErr, locV, timeV, outV, pubV, bcV, rcvBy,
                 lsnSock, sockQ, dgrams, delivered, rdV, subV>>

\* proc: print the four fields; process returns and Discover returns
Discover_print ==
  /\ pc = "Discover_print" /\ ~crashed
  /\ reports' = Append(reports,
                  [kind |-> "device", type |-> Field(r, "type_name"),
                   name |-> Field(r, "name"), mac |-> Field(r, "mac"),
                   ip |-> Field(r, "ip")])
  /\ pc' = "done"
  /\ UNCHANGED <<argsV, crashed, opErr, locV, timeV, dots, timeouts, pubV, bcV,
                 rcvV, rdV, subV>>

(***************************************************************************)
(* DevicePower.                                                            *)
(***************************************************************************)
\* go subscribe(sensor topic, ..., recvCh, nil); then loop on <-recvCh
DevicePower ==
  /\ pc = "DevicePower"
  /\ subTopic' = SensorTopic(mac)
  /\ subPc' = "connect" /\ subClient' = "new"
  /\ pc' = "DevicePower_recv"
  /\ UNCHANGED <<argsV, crashed, opErr, locV, timeV, outV, pubV, bcV, rcvV, rdV,
                 subscribed, mqttQ, msgs, hMsg, mqttDelivered>>

\* msg := <-recvCh: the handler's send completes
DevicePower_recv ==
  /\ pc = "DevicePower_recv" /\ ~crashed
  /\ hMsg # NoPayload
  /\ resp' = hMsg /\ hMsg' = NoPayload
  /\ pc' = "DevicePower_process"
  /\ UNCHANGED <<argsV, crashed, opErr, topic, msg, r, dsCalls, timeV, outV,
                 pubV, bcV, rcvV, rdV, subPc, subTopic, subClient, subscribed,
                 mqttQ, msgs, mqttDelivered>>

\* proc: print power and int(uptime.(float64)), which panics without total_time
DevicePower_proc ==
  /\ pc = "DevicePower_proc" /\ ~crashed
  /\ IF "total_time" \in DOMAIN r
     THEN /\ reports' = Append(reports,
                          [kind |-> "power", power |-> Field(r, "power"),
                           uptime |-> r["total_time"]])
          /\ pc' = "DevicePower_recv"
          /\ UNCHANGED crashed
     ELSE /\ crashed' = TRUE
          /\ UNCHANGED <<reports, pc>>
  /\ UNCHANGED <<argsV, opErr, locV, timeV, dots, timeouts, pubV, bcV, rcvV,
                 rdV, subV>>

(***************************************************************************)
(* DeviceState: called by main for "monitor" and by SwitchPlug.            *)
(***************************************************************************)
\* go subscribe(state topic, ..., recvCh, stopCh); then msg := <-recvCh
DeviceState ==
  /\ pc = "DeviceState"
  /\ subTopic' = StateTopic(mac)
  /\ subPc' = "connect" /\ subClient' = "new"
  /\ dsCalls' = dsCalls + 1
  /\ pc' = "DeviceState_recv"
  /\ UNCHANGED <<argsV, crashed, opErr, topic, msg, resp, r, timeV, outV, pubV,
                 bcV, rcvV, rdV, subscribed, mqttQ, msgs, hMsg, mqttDelivered>>

DeviceState_recv ==
  /\ pc = "DeviceState_recv" /\ ~crashed
  /\ hMsg # NoPayload
  /\ resp' = hMsg /\ hMsg' = NoPayload
  /\ pc' = "DeviceState_process"
  /\ UNCHANGED <<argsV, crashed, opErr, topic, msg, r, dsCalls, timeV, outV,
                 pubV, bcV, rcvV, rdV, subPc, subTopic, subClient, subscribed,
                 mqttQ, msgs, mqttDelivered>>

\* proc: stopCh <- signal, received by subscribe waiting on stopCh
DeviceState_proc ==
  /\ pc = "DeviceState_proc" /\ ~crashed
  /\ subPc = "wait"
  /\ subPc' = "disconnect"
  /\ pc' = "DeviceState_print"
  /\ UNCHANGED <<argsV, crashed, opErr, locV, timeV, outV, pubV, bcV, rcvV, rdV,
                 subTopic, subClient, subscribed, mqttQ, msgs, hMsg, mqttDelivered>>

\* mutation of PlugOn: any non-zero value counts as on
PlugOn_NonZero(rr, i) == rr[PlugKey(i)].on # 0

\* a plug is printed true exactly when int(on.(float64)) == 1
PlugOn(rr, i) == rr[PlugKey(i)].on = 1

\* proc: the loop over plug_0..plug_5, where plug.(map[string]interface{})
\* panics on a missing plug; print; DeviceState returns, and SwitchPlug,
\* when it is the caller, returns nil
DeviceState_print ==
  /\ pc = "DeviceState_print" /\ ~crashed
  /\ IF \A i \in AllPlugs : PlugKey(i) \in DOMAIN r
     THEN /\ reports' = Append(reports,
                          [kind |-> "state",
                           plugs |-> [i \in AllPlugs |-> PlugOn(r, i)]])
          /\ opErr' = (IF cmd = "switch" THEN "nil" ELSE opErr)
          /\ pc' = "done"
          /\ UNCHANGED crashed
     ELSE /\ crashed' = TRUE
          /\ UNCHANGED <<reports, opErr, pc>>
  /\ UNCHANGED <<argsV, locV, timeV, dots, timeouts, pubV, bcV, rcvV, rdV, subV>>

(***************************************************************************)
(* SwitchPlug.                                                             *)
(***************************************************************************)
SwitchPlug ==
  /\ pc = "SwitchPlug"
  /\ topic' = SetTopic(mac)
  /\ msg' = Marshal(SwitchPayload(mac, plug, on))
  /\ pc' = "SwitchPlug_publish"
  /\ UNCHANGED <<argsV, crashed, opErr, resp, r, dsCalls, timeV, outV, pubV,
                 bcV, rcvV, rdV, subV>>

\* err != nil: fall back to broadcast(msg); otherwise time.Sleep(2 s)
SwitchPlug_published ==
  /\ pc = "SwitchPlug_published"
  /\ IF pubErr = "err"
     THEN /\ bcPc' = "listen" /\ bcBy' = "main" /\ bcMsg' = msg
          /\ bcCalls' = bcCalls + 1
          /\ pc' = "SwitchPlug_broadcast"
          /\ UNCHANGED wakeAt
     ELSE /\ wakeAt' = now + SettleDelay
          /\ pc' = "SwitchPlug_sleep"
          /\ UNCHANGED <<bcPc, bcBy, bcMsg, bcCalls>>
  /\ UNCHANGED <<argsV, crashed, opErr, locV, now, tickReady, afterAt, held, outV,
                 pubV, bcSock, bcErr, udpSent, rcvV, rdV, subV>>

\* err = broadcast(msg); return err
SwitchPlug_return ==
  /\ pc = "SwitchPlug_return"
  /\ opErr' = bcErr
  /\ pc' = "done"
  /\ UNCHANGED <<argsV, crashed, locV, timeV, outV, pubV, bcV, rcvV, rdV, subV>>

\* mutation of SwitchPlug_wake: the state check does not wait for the delay
SwitchPlug_wake_NoDelay ==
  /\ pc = "SwitchPlug_sleep"
  /\ pc' = "DeviceState"
  /\ UNCHANGED <<argsV, crashed, opErr, locV, timeV, outV, pubV, bcV, rcvV, rdV,
                 subV>>

\* the sleep is over: call DeviceState
SwitchPlug_wake ==
  /\ pc = "SwitchPlug_sleep"
  /\ now >= wakeAt
  /\ pc' = "DeviceState"
  /\ UNCHANGED <<argsV, crashed, opErr, locV, timeV, outV, pubV, bcV, rcvV, rdV,
                 subV>>

(***************************************************************************)
(* UpgradeDevice.                                                          *)
(***************************************************************************)
UpgradeDevice ==
  /\ pc = "UpgradeDevice"
  /\ topic' = SetTopic(mac)
  /\ msg' = Marshal(UpgradePayload(mac, ota))
  /\ pc' = "UpgradeDevice_publish"
  /\ UNCHANGED <<argsV, crashed, opErr, resp, r, dsCalls, timeV, outV, pubV,
                 bcV, rcvV, rdV, subV>>

\* err != nil: return err; otherwise call receive(recvCh, stopCh) in main
UpgradeDevice_published ==
  /\ pc = "UpgradeDevice_published"
  /\ IF pubErr = "err"
     THEN /\ opErr' = "err" /\ pc' = "done"
          /\ UNCHANGED <<rcvPc, rcvBy>>
     ELSE /\ rcvPc' = "listen" /\ rcvBy' = "main"
          /\ pc' = "UpgradeDevice_receive"
          /\ UNCHANGED opErr
  /\ UNCHANGED <<argsV, crashed, locV, timeV, outV, pubV, bcV, lsnSock, sockQ,
                 dgrams, delivered, rdV, subV>>

\* the loop that follows receive(): select on recvCh with a default that
\* sleeps 3 s; process and proc for a received slice.  proc sends on stopCh
\* at 100 percent, where nothing receives once receive() has returned.
UpgradeDevice_loop ==
  /\ ~crashed
  /\ pc \in {"UpgradeDevice_select", "UpgradeDevice_proc"}
  /\ IF pc = "UpgradeDevice_select"
     THEN IF rdPc = "send"
          THEN /\ resp' = data /\ rdPc' = "read"
               /\ pc' = "UpgradeDevice_process"
               /\ UNCHANGED <<wakeAt, reports, crashed>>
          ELSE /\ wakeAt' = now + UpgradePoll
               /\ pc' = "UpgradeDevice_sleep"
               /\ UNCHANGED <<resp, rdPc, reports, crashed>>
     ELSE IF "ota_progress" \notin DOMAIN r
          THEN /\ crashed' = TRUE
               /\ UNCHANGED <<pc, resp, rdPc, wakeAt, reports>>
          ELSE IF r["ota_progress"] >= 100
          THEN /\ pc' = "UpgradeDevice_stop"
               /\ UNCHANGED <<resp, rdPc, wakeAt, reports, crashed>>
          ELSE /\ reports' = Append(reports,
                               [kind |-> "progress", value |-> r["ota_progress"]])
               /\ pc' = "UpgradeDevice_select"
               /\ UNCHANGED <<resp, rdPc, wakeAt, crashed>>
  /\ UNCHANGED <<argsV, opErr, topic, msg, r, dsCalls, now, tickReady, afterAt,
                 held, dots, timeouts, pubV, bcV, rcvV, data, raced, closedReads, subV>>

\* the 3 s sleep is over: select again
UpgradeDevice_wake ==
  /\ pc = "UpgradeDevice_sleep"
  /\ now >= wakeAt
  /\ pc' = "UpgradeDevice_select"
  /\ UNCHANGED <<argsV, crashed, opErr, locV, timeV, outV, pubV, bcV, rcvV, rdV,
                 subV>>

(***************************************************************************)
(* Environment: devices, broker, clock.                                    *)
(***************************************************************************)
\* a datagram is sent to the receive port: queued on the bound socket,
\* dropped when nothing is bound
DeviceSend ==
  /\ Running /\ cmd \in {"discover", "upgrade"}
  /\ dgrams < MaxDgrams
  /\ \E d \in Datagrams(cmd) :
       /\ sockQ' = (IF lsnSock = "open" THEN Append(sockQ, d) ELSE sockQ)
       /\ delivered' = (IF lsnSock = "open" THEN Append(delivered, d)
                        ELSE delivered)
  /\ dgrams' = dgrams + 1
  /\ UNCHANGED <<argsV, pc, crashed, opErr, locV, timeV, outV, pubV, bcV, rcvPc,
                 rcvBy, lsnSock, rdV, subV>>

\* the device publishes on the monitored topic: delivered to the client when
\* its subscription stands, not delivered otherwise (nothing is retained)
DevicePublish ==
  /\ Running /\ cmd \in {"monitor", "switch"}
  /\ msgs < MaxMsgs
  /\ \E m \in Messages(IF cmd = "switch" THEN "state" ELSE monitorType) :
       /\ mqttQ' = (IF subscribed THEN Append(mqttQ, m) ELSE mqttQ)
       /\ mqttDelivered' = (IF subscribed THEN Append(mqttDelivered, m)
                            ELSE mqttDelivered)
  /\ msgs' = msgs + 1
  /\ UNCHANGED <<argsV, pc, crashed, opErr, locV, timeV, outV, pubV, bcV, rcvV,
                 rdV, subPc, subTopic, subClient, subscribed, hMsg>>

\* main has something to do in the Discover select
SelectReady == tickReady \/ rdPc = "send" \/ now >= afterAt

\* one second passes while main waits on the clock, up to the second limit
AdvanceTo(limit) ==
  /\ Running /\ now < limit
  /\ \/ pc = "Discover_select" /\ ~SelectReady
     \/ pc \in {"SwitchPlug_sleep", "UpgradeDevice_sleep"} /\ now < wakeAt
  /\ now' = now + 1
  /\ tickReady' = (tickReady \/ (pc = "Discover_select" /\ (now + 1) % interval = 0))
  /\ UNCHANGED <<argsV, pc, crashed, opErr, locV, afterAt, wakeAt, held, outV,
                 pubV, bcV, rcvV, rdV, subV>>

Advance == AdvanceTo(MaxTime)

\* the whole process is held up for the length of the select's timer (the
\* host is suspended, the process stopped): tick and timer are then both due
Suspend ==
  /\ Running /\ pc = "Discover_select"
  /\ now + DiscoverTimeout <= MaxTime
  /\ now' = now + DiscoverTimeout
  /\ tickReady' = TRUE
  /\ held' = TRUE
  /\ UNCHANGED <<argsV, pc, crashed, opErr, locV, afterAt, wakeAt, outV, pubV,
                 bcV, rcvV, rdV, subV>>

Next ==
  \/ main
  \/ broadcast_Listen \/ broadcast_Write
  \/ publish_Connect \/ publish_Publish
  \/ receive_Listen \/ receive_Close \/ reader_Read
  \/ subscribe_Connect \/ subscribe_Subscribe \/ subscribe_Disconnect
  \/ handler \/ process
  \/ Discover \/ Discover_tick \/ Discover_recv \/ Discover_timeout
  \/ Discover_proc \/ Discover_print
  \/ AdoptDevice \/ AdoptDevice_return
  \/ ActivateDevice \/ ActivateDevice_published \/ ActivateDevice_return
  \/ DevicePower \/ DevicePower_recv \/ DevicePower_proc
  \/ DeviceState \/ DeviceState_recv \/ DeviceState_proc \/ DeviceState_print
  \/ SwitchPlug \/ SwitchPlug_published \/ SwitchPlug_return \/ SwitchPlug_wake
  \/ UpgradeDevice \/ UpgradeDevice_published \/ UpgradeDevice_loop
  \/ UpgradeDevice_wake
  \/ DeviceSend \/ DevicePublish \/ Advance \/ Suspend

Spec == Init /\ [][Next]_vars

(***************************************************************************)
(* A Discover run on a network where no device answers, followed for       *)
(* MaxQuiet seconds: the program's steps are those of Discover, the        *)
(* broadcast and the listener; no datagram arrives.                        *)
(***************************************************************************)
NextNoDevice ==
  \/ (main /\ cmd' = "discover")
  \/ Discover \/ Discover_tick \/ Discover_timeout
  \/ broadcast_Listen \/ broadcast_Write
  \/ receive_Listen
  \/ AdvanceTo(MaxQuiet) \/ Suspend

SpecNoDevice == Init /\ [][NextNoDevice]_vars

(***************************************************************************)
(* Properties.                                                             *)
(***************************************************************************)
FallbackOp == cmd \in {"activate", "switch"}
StateOp == cmd = "switch" \/ (cmd = "monitor" /\ monitorType = "state")
PublishFailed == pubOutcome \in {"connectFailed", "publishFailed"}
Quiescent == ~ENABLED Next

\* C1: in ActivateDevice and SwitchPlug, whenever the MQTT publish of the
\* command failed (the connect or the publish itself), the operation has, when
\* it returns, made exactly one broadcast call, with the very payload given to
\* publish, and returns that broadcast's result.
C1_FallbackOnPublishFailure ==
  (FallbackOp /\ pc = "done" /\ PublishFailed) =>
    /\ bcCalls = 1 /\ bcPc = "done" /\ bcMsg = msg
    /\ (bcErr = "nil" => udpSent = <<msg>>)
    /\ (bcErr = "err" => udpSent = <<>>)
    /\ opErr = bcErr

\* C2: in a Discover run that is scheduled without delay and in which no
\* datagram is sent to the receive port, the timeout is not reported before
\* 30 s have passed, and once more than 30 s have passed it has been reported
\* (once) and Discover has returned.
C2_TimeoutAtDeadline ==
  (cmd = "discover" /\ dgrams = 0 /\ ~held) =>
    /\ (timeouts > 0 => now >= DiscoverTimeout)
    /\ (now > DiscoverTimeout => timeouts = 1 /\ pc = "done")

\* C3: when the OTA command was published and the datagrams 10, 55, 100 have
\* arrived in this order on the bound receive socket, UpgradeDevice does not
\* come to rest before it has reported 10, 55 and 100 in order and returned
\* with success.
C3_ProgressReportedThenDone ==
  (/\ cmd = "upgrade" /\ pubOutcome = "published"
   /\ delivered = <<Progress(10), Progress(55), Progress(100)>>
   /\ Quiescent) =>
    /\ pc = "done" /\ opErr = "nil"
    /\ Len(reports) = 3
    /\ \A i \in 1..3 : reports[i].value = delivered[i].fields["ota_progress"]

DeviceReport(d) ==
  [kind |-> "device", type |-> d.fields["type_name"], name |-> d.fields["name"],
   mac |-> d.fields["mac"], ip |-> d.fields["ip"]]

\* C4: when only well-formed replies arrive and Discover has taken the first
\* of them from the listener, Discover does not panic, prints at most one
\* report, which shows exactly the four fields of that first reply and never
\* those of a later one, and when it has returned it has printed that report
\* and has signalled the listener to stop.
C4_FirstReplyReported ==
  (/\ cmd = "discover" /\ resp # NoPayload
   /\ \A i \in DOMAIN delivered : delivered[i] \in {ReplyA, ReplyB}) =>
    /\ ~crashed
    /\ Len(reports) <= 1
    /\ (reports # <<>> => reports[1] = DeviceReport(delivered[1]))
    /\ (pc = "done" => reports # <<>> /\ rcvPc \in {"close", "done"})

\* C5: DeviceState takes only the first message delivered on the state topic;
\* it prints at most one report, whose plug i is on exactly when plug_i.on of
\* that first message is 1, after signalling subscribe to stop; when it has
\* returned it has printed one report, whatever arrived after the first message.
C5_StateSingleShot ==
  StateOp =>
    /\ Len(reports) <= 1
    /\ (resp # NoPayload => mqttDelivered # <<>> /\ resp = mqttDelivered[1])
    /\ (reports # <<>> =>
          /\ reports[1].kind = "state"
          /\ \A i \in AllPlugs :
               reports[1].plugs[i] = (mqttDelivered[1].fields[PlugKey(i)].on = 1)
          /\ subPc \in {"disconnect", "done"})
    /\ (pc = "done" /\ dsCalls > 0 => Len(reports) = 1)

\* C5 witness: DeviceState has returned after reporting a first message with
\* plugs on, off and at another value, and a second message had been delivered.
C5_Witness ==
  /\ StateOp /\ pc = "done" /\ Len(reports) = 1
  /\ Len(mqttDelivered) = 2 /\ mqttDelivered[1] = StateMixed
  /\ mqttDelivered[2] = StateAllOn

\* C6: when an operation has returned, no UDP socket it opened is still open
\* and no MQTT client it connected is still connected.
C6_NoLeakAtReturn ==
  pc = "done" =>
    /\ bcSock # "open" /\ lsnSock # "open"
    /\ pubClient # "connected" /\ subClient # "connected"

\* C7: process never panics on a payload that is not a JSON object.
C7_DecodeFailureSkipped ==
  ~(/\ crashed
    /\ pc \in {"Discover_process", "DevicePower_process", "DeviceState_process",
               "UpgradeDevice_process"}
    /\ resp.json # "object")

\* C8: once publish has returned, it returned an error if the connect or the
\* publish failed, and nil only if the message was published.
C8_PublishReportsFailure ==
  /\ (pubErr = "nil" => pubOutcome = "published")
  /\ (PublishFailed => pubErr = "err")

\* C9 as claimed: when SwitchPlug has returned after delivering its command,
\* over MQTT or over the UDP fallback, it has run DeviceState exactly once.
C9_StateCheckedAfterEveryDelivery ==
  (/\ cmd = "switch" /\ pc = "done"
   /\ (pubErr = "nil" \/ bcErr = "nil")) => dsCalls = 1

\* C9 as amended: SwitchPlug runs DeviceState only after a publish that
\* returned no error, not before the settle delay has passed since publish
\* returned, and exactly once before it returns; after the UDP fallback it
\* returns without running DeviceState.
C9_StateCheckedAfterPublish ==
  cmd = "switch" =>
    /\ dsCalls <= 1
    /\ (dsCalls = 1 => pubErr = "nil" /\ bcCalls = 0 /\ now >= wakeAt)
    /\ (pc = "done" /\ pubErr = "nil" => dsCalls = 1 /\ wakeAt >= SettleDelay)
    /\ (pc = "done" /\ pubErr = "err" => dsCalls = 0 /\ bcCalls = 1)

\* C9 witness: SwitchPlug has returned after the delay and one state check.
C9_Witness ==
  /\ cmd = "switch" /\ pc = "done" /\ dsCalls = 1 /\ pubErr = "nil"
  /\ now >= SettleDelay /\ Len(reports) = 1

\* C10: main is never left waiting on recvCh once subscribe has returned on a
\* failed connect or subscribe, with no message left to hand over.
C10_SubscribeFailureEndsOperation ==
  ~(/\ pc \in {"DevicePower_recv", "DeviceState_recv"}
    /\ subPc = "done" /\ hMsg = NoPayload)

\* nothing has been opened, connected, sent or subscribed
NoNetworkIO ==
  /\ pubClient = "none" /\ subClient = "none" /\ clientIds = <<>>
  /\ mqttSent = <<>> /\ subPc = "idle" /\ ~subscribed
  /\ bcCalls = 0 /\ bcPc = "idle" /\ bcSock = "none" /\ udpSent = <<>>
  /\ rcvPc = "idle" /\ lsnSock = "none"

\* C11: a switch command with a plug index outside 0..5 ends in the
\* validation exit without any network I/O (no MQTT client, connect, publish
\* or subscription, no UDP socket or broadcast); with an index in 0..5 the
\* validation exit is never taken.
C11_PlugValidatedBeforeIO ==
  cmd = "switch" =>
    IF plug \in AllPlugs THEN pc # "exit" ELSE pc = "exit" /\ NoNetworkIO

\* C11 witness: switch with plug 6 has been rejected.
C11_Witness == cmd = "switch" /\ plug = MaxPlug + 1 /\ pc = "exit"

PlugDigit == <<"0", "1", "2", "3", "4", "5">>

\* the text of the switch envelope for plug i of device m
SwitchEnvelope(m, i, b) ==
  "{\"mac\":\"" \o m \o "\",\"plug_" \o PlugDigit[i + 1] \o "\":{\"on\":"
    \o (IF b THEN "1" ELSE "0") \o "}}"

\* C12: once SwitchPlug has encoded its envelope, the envelope has the keys
\* mac and plug_<plug> and no other, its text is
\* {"mac":"<mac>","plug_<plug>":{"on":1}} when switching on and the same with
\* 0 when switching off, and that very text is what publish sends over MQTT
\* and what the fallback hands to broadcast and sends over UDP.
C12_SwitchEnvelope ==
  (cmd = "switch" /\ pc \notin {"main", "exit", "SwitchPlug"}) =>
    /\ DOMAIN SwitchPayload(mac, plug, on).v = {"mac", "plug_" \o PlugDigit[plug + 1]}
    /\ msg = SwitchEnvelope(mac, plug, on)
    /\ \A k \in DOMAIN mqttSent : mqttSent[k].payload = SwitchEnvelope(mac, plug, on)
    /\ (bcCalls > 0 => bcMsg = SwitchEnvelope(mac, plug, on))
    /\ \A k \in DOMAIN udpSent : udpSent[k] = SwitchEnvelope(mac, plug, on)

\* C12 witness: plug 5 switched on over the UDP fallback.
C12_Witness ==
  /\ cmd = "switch" /\ plug = MaxPlug /\ on /\ pubOutcome = "connectFailed"
  /\ udpSent = <<"{\"mac\":\"11111111e10d\",\"plug_5\":{\"on\":1}}">>

\* C13: when the MQTT publish of the OTA command failed (the connect or the
\* publish itself), UpgradeDevice makes no broadcast, never starts the UDP
\* listener, and returns an error.
C13_UpgradeNoFallback ==
  (cmd = "upgrade" /\ PublishFailed) =>
    /\ bcCalls = 0 /\ udpSent = <<>>
    /\ rcvPc = "idle" /\ lsnSock = "none"
    /\ (pc # "UpgradeDevice_published" => pc = "done" /\ opErr = "err")

\* C14: when AdoptDevice or Discover has returned and its broadcast had
\* failed (socket open or write), the operation returned an error.
C14_BroadcastFailureSurfaced ==
  (cmd \in {"adopt", "discover"} /\ pc = "done" /\ bcErr = "err") => opErr = "err"

\* C15: in ActivateDevice and SwitchPlug a broadcast is called only after
\* publish returned an error for the same payload, with nothing sent over
\* MQTT; once the message has been published no broadcast is called and
\* nothing is sent over UDP.
C15_MqttTriedFirst ==
  FallbackOp =>
    /\ (bcCalls > 0 =>
          /\ pubErr = "err" /\ PublishFailed
          /\ bcCalls = 1 /\ bcMsg = msg /\ mqttSent = <<>>)
    /\ (pubOutcome = "published" =>
          /\ mqttSent = <<[topic |-> topic, payload |-> msg]>>
          /\ bcCalls = 0 /\ bcPc = "idle" /\ udpSent = <<>>)

\* C15 witness: ActivateDevice has returned after a failed connect and the
\* broadcast of the payload.
C15_Witness ==
  /\ cmd = "activate" /\ pc = "done" /\ pubOutcome = "connectFailed"
  /\ bcCalls = 1 /\ udpSent = <<msg>>

\* C16: once the listener has closed its socket on the stop signal, the
\* reader goroutine attempts no further read of it.
C16_ReaderStopsOnCancel == lsnSock = "closed" => closedReads = 0

\* C17: publish never returns with its client connected: once it has
\* returned (connect failure, publish failure or success) the client is
\* disconnected, and outside publish no client of publish is connected.
C17_PublishReleasesClient ==
  /\ (pubOutcome # "none" => pubClient = "disconnected" /\ pubErr # "unset")
  /\ (pc \notin PublishPcs => pubClient \in {"none", "disconnected"})

\* C17 witness: publish has returned after a connect and a failed publish.
C17_Witness ==
  /\ pubOutcome = "publishFailed" /\ pubClient = "disconnected"
  /\ pc \notin PublishPcs /\ clientIds # <<>>

\* C18: while the consumer is busy with a message, or has stopped reading,
\* a message waiting at the subscribed client can always be handed to a
\* handler.
C18_DeliveryNotBlocked ==
  (/\ Running /\ subClient = "connected" /\ subscribed /\ mqttQ # <<>>
   /\ pc \notin {"DevicePower_recv", "DeviceState_recv"}) => ENABLED handler

\* C19: no two connections of a run present the same client id to the broker.
C19_UniqueClientIds ==
  \A i, j \in DOMAIN clientIds : i # j => clientIds[i] # clientIds[j]

\* C20: Discover and AdoptDevice never create or connect an MQTT client,
\* publish or subscribe; AdoptDevice calls broadcast once, sends at most that
\* one datagram and never listens; DevicePower and DeviceState never open a
\* UDP socket, broadcast or listen.
C20_FixedTransport ==
  /\ (cmd \in {"discover", "adopt"} =>
        /\ pubClient = "none" /\ subClient = "none" /\ clientIds = <<>>
        /\ mqttSent = <<>> /\ subPc = "idle" /\ ~subscribed)
  /\ (cmd = "adopt" =>
        /\ bcCalls <= 1 /\ Len(udpSent) <= 1
        /\ (pc = "done" => bcCalls = 1 /\ bcPc = "done")
        /\ rcvPc = "idle" /\ lsnSock = "none" /\ rdPc = "idle")
  /\ (cmd = "monitor" =>
        /\ bcCalls = 0 /\ bcPc = "idle" /\ bcSock = "none" /\ udpSent = <<>>
        /\ rcvPc = "idle" /\ lsnSock = "none" /\ rdPc = "idle")

\* C20 witness: AdoptDevice has returned after its one broadcast was sent.
C20_Witness ==
  /\ cmd = "adopt" /\ pc = "done" /\ bcCalls = 1 /\ bcErr = "nil"
  /\ udpSent = <<msg>> /\ clientIds = <<>>

PowerOp == cmd = "monitor" /\ monitorType = "power"

PowerReport(m) ==
  [kind |-> "power", power |-> m.fields["power"], uptime |-> m.fields["total_time"]]

\* C21: DevicePower never ends on its own (it neither returns nor panics),
\* its reports are those of the messages delivered on the sensor topic, one
\* per message in delivery order, and when it has come to rest with its
\* subscription standing every delivered message has been reported.
C21_PowerStream ==
  PowerOp =>
    /\ ~crashed /\ pc # "done"
    /\ Len(reports) <= Len(mqttDelivered)
    /\ \A i \in DOMAIN reports : reports[i] = PowerReport(mqttDelivered[i])
    /\ (Quiescent /\ subscribed => Len(reports) = Len(mqttDelivered))

\* the text of the command envelope of command c for device m
CommandEnvelope(c, m, i, b) ==
  CASE c = "activate" -> "{\"lock\":\"1234567890abcdef\",\"mac\":\"" \o m \o "\"}"
    [] c = "switch" -> SwitchEnvelope(m, i, b)
    [] c = "upgrade" ->
         "{\"mac\":\"" \o m
           \o "\",\"setting\":{\"ota\":\"http://192.168.43.119/TC1.ota.bin\"}}"

\* C22: every message published over MQTT is the command envelope of the
\* device given on the command line, with that device's mac in its mac field,
\* and is published on that same device's set topic.
C22_MacInEnvelope ==
  \A k \in DOMAIN mqttSent :
    /\ mqttSent[k].topic = "device/ztc1/" \o mac \o "/set"
    /\ mqttSent[k].payload = CommandEnvelope(cmd, mac, plug, on)

\* C22 witness: the OTA command for the second device has been published.
C22_Witness ==
  /\ cmd = "upgrade" /\ mac = "22222222e10d" /\ pubOutcome = "published"
  /\ mqttSent =
       <<[topic |-> "device/ztc1/22222222e10d/set",
          payload |-> "{\"mac\":\"22222222e10d\",\"setting\":{\"ota\":"
                        \o "\"http://192.168.43.119/TC1.ota.bin\"}}"]>>

\* C23: Discover never prints more than 60 progress dots.
C23_DotsBounded == cmd = "discover" => dots <= 60

\* C24: once SwitchPlug's command has been published, the first message the
\* device then publishes on the state topic is delivered to the program,
\* whenever it comes.
C24_AnswerObserved ==
  [][(/\ cmd = "switch" /\ pubOutcome = "published" /\ Running
      /\ msgs = 0 /\ msgs' = 1) => mqttDelivered' # <<>>]_vars

\* the listener returned because it could not bind the receive port
BindFailed == rcvPc = "done" /\ lsnSock = "none"

\* C25: when the listener of Discover could not bind the receive port,
\* Discover, scheduled without delay, has returned once more than 30 s have
\* passed.
C25_BindFailureEndsDiscover ==
  (cmd = "discover" /\ BindFailed /\ ~held /\ now > DiscoverTimeout) =>
    pc = "done"

\* C26: in Discover the report request is not on the network before the
\* listener has bound the receive port.
C26_ListenerBoundBeforeRequest ==
  (cmd = "discover" /\ udpSent # <<>>) => lsnSock = "open"

\* C27: in Discover and DeviceState the handler's send on stopCh always
\* finds the listener or subscriber waiting to receive it, whatever else has
\* arrived meanwhile; the operation never comes to rest at or after that
\* send without having returned, except that DeviceState's proc panics
\* after the send on a state message that lacks one of the six plugs.
C27_StopRendezvous ==
  /\ (pc = "Discover_proc" => rcvPc = "wait" /\ rcvBy = "go")
  /\ (pc = "DeviceState_proc" => subPc = "wait")
  /\ (/\ pc \in {"Discover_proc", "Discover_print", "DeviceState_proc",
                 "DeviceState_print"}
      /\ Quiescent) =>
       /\ crashed /\ pc = "DeviceState_print"
       /\ \E i \in AllPlugs : PlugKey(i) \notin DOMAIN r

\* C27 witness: Discover has returned after the stop signal was taken, with
\* further datagrams having arrived after the first.
C27_Witness ==
  /\ cmd = "discover" /\ pc = "done" /\ Len(reports) = 1
  /\ rcvPc = "done" /\ lsnSock = "closed" /\ Len(delivered) = MaxDgrams

====
